---- MODULE Spec2Model ----
(***************************************************************************)
(* The mutation layer of the CRM GraphQL API (crm/schema.py): the four     *)
(* mutations CreateCustomer, BulkCreateCustomers, CreateProduct and        *)
(* CreateOrder, running as requests against one relational store.          *)
(*                                                                         *)
(* A request occupies a slot of Procs.  Every statement of a handler that  *)
(* touches the store is one step, so that two requests interleave exactly  *)
(* where two Django requests can: between two queries.  Outside            *)
(* transaction.atomic() every save() commits at once (autocommit); inside  *)
(* it the rows are pending, visible to the transaction alone, until the    *)
(* block is left.                                                          *)
(*                                                                         *)
(* crm/models.py is not part of the sources: the tables, the uniqueness of *)
(* Customer.email and the many-to-many relation Order.products are taken   *)
(* from the data model of the specification.  Primary keys are integers,   *)
(* and the ids a request names are integers too.                           *)
(***************************************************************************)
EXTENDS Integers, Sequences, FiniteSets, TLC

VARIABLES
    customers,      \* committed rows of the Customer table
    products,       \* committed rows of the Product table
    orders,         \* committed rows of the Order table, each with its relation
    seq,            \* the auto-increment counter of each table
    pending,        \* per request: rows saved inside its open atomic block
    needs_rollback, \* per request: the connection's needs_rollback flag
    pc,             \* per request: the statement it is at
    args,           \* per request: the arguments of the mutation
    frame,          \* per request: the local variables of mutate()
    result,         \* per request: what mutate() returned or raised
    submitted,      \* number of customer rows submitted so far, over all requests
    wrote,          \* history, per request: the rows its save() calls inserted
    existed,        \* history, per request: was the email stored when it was invoked
    seen,           \* history, per request: the emails visible as each bulk row was reached
    raisedAt        \* history, per request: the bulk rows whose save() raised

vars == <<customers, products, orders, seq, pending, needs_rollback, pc, args,
          frame, result, submitted, wrote, existed, seen, raisedAt>>

-----------------------------------------------------------------------------
(* Bounds of the model.                                                    *)

MaxRows == 3
MaxProducts == 2
MaxOrders == 1
MaxProductIds == 2

Procs == {"r1", "r2"}
Names == {"Ann"}
Emails == {"a@x.io", "b@x.io"}

\* An optional argument: None, or Some(v).
None == <<>>
Some(v) == <<v>>

Phones == {None, Some("+1234567890"), Some("12345")}
BatchPhones == {Some("123-456-7890"), Some("12-34")}

CustomerInputs == [name : Names, email : Emails, phone : Phones]
BatchInputs == [name : Names, email : Emails, phone : BatchPhones]

RECURSIVE SeqsUpTo(_, _)
SeqsUpTo(S, n) ==
    IF n = 0 THEN {<<>>}
    ELSE LET shorter == SeqsUpTo(S, n - 1)
         IN  shorter \cup {Append(s, x) : s \in {t \in shorter : Len(t) = n - 1}, x \in S}

\* The batches of at most n rows.
Batches(n) == SeqsUpTo(BatchInputs, n)

-----------------------------------------------------------------------------
(* Validation rules.                                                       *)

IsDigit(c) == c \in {"0", "1", "2", "3", "4", "5", "6", "7", "8", "9"}

AllDigits(s) == \A i \in 1..Len(s) : IsDigit(SubSeq(s, i, i))

\* "$" of a Python regex also matches just before one trailing newline.
BeforeDollar(s) ==
    IF Len(s) > 0 /\ SubSeq(s, Len(s), Len(s)) = "\n" THEN SubSeq(s, 1, Len(s) - 1) ELSE s

\* \+\d{10,15}
PlusForm(s) ==
    /\ Len(s) >= 11
    /\ Len(s) <= 16
    /\ SubSeq(s, 1, 1) = "+"
    /\ AllDigits(SubSeq(s, 2, Len(s)))

\* \d{3}-\d{3}-\d{4}
DashForm(s) ==
    /\ Len(s) = 12
    /\ AllDigits(SubSeq(s, 1, 3))
    /\ SubSeq(s, 4, 4) = "-"
    /\ AllDigits(SubSeq(s, 5, 7))
    /\ SubSeq(s, 8, 8) = "-"
    /\ AllDigits(SubSeq(s, 9, 12))

\* phone_regex.match(phone) with ^(\+\d{10,15}|\d{3}-\d{3}-\d{4})$
PhoneRegexMatch(s) ==
    \/ PlusForm(s) \/ DashForm(s)
    \/ PlusForm(BeforeDollar(s)) \/ DashForm(BeforeDollar(s))

\* "if phone:" is false for None and for the empty string.
Truthy(phone) == phone # None /\ phone[1] # ""

PhoneRejected(phone) == Truthy(phone) /\ ~PhoneRegexMatch(phone[1])

-----------------------------------------------------------------------------
(* The store.                                                              *)

EmailsOf(rows) == {c.email : c \in rows}

Ids(rows) == {r.id : r \in rows}

\* The rows request p reads: what is committed, and what it saved itself
\* inside its own open atomic block.
View(p) == customers \cup pending[p]

\* Customer.objects.filter(email=email).exists(), as request p runs it.
EmailExists(p, email) == email \in EmailsOf(View(p))

\* Mutant of UniqueViolation: the email column carries no uniqueness constraint.
NoUniqueConstraint(p, email) == FALSE

\* The uniqueness constraint on Customer.email refuses the insert.
UniqueViolation(p, email) == email \in EmailsOf(View(p))

\* An insert of an email another open transaction has inserted waits for
\* that transaction to end.
InsertWaits(p, email) == \E q \in Procs \ {p} : email \in EmailsOf(pending[q])

NewCustomer(data) ==
    [id |-> seq.customer + 1, name |-> data.name, email |-> data.email, phone |-> data.phone]

-----------------------------------------------------------------------------
(* Requests.                                                               *)

NoArgs == [op |-> "none"]
NoFrame == [idx |-> 0, created |-> <<>>, errors |-> <<>>]
NoResult == [status |-> "none", value |-> <<>>]

Returned(v) == [status |-> "returned", value |-> v]
Raised(e) == [status |-> "raised", value |-> e]

Init ==
    /\ customers = {}
    /\ products = {}
    /\ orders = {}
    /\ seq = [customer |-> 0, product |-> 0, order |-> 0]
    /\ pending = [p \in Procs |-> {}]
    /\ needs_rollback = [p \in Procs |-> FALSE]
    /\ pc = [p \in Procs |-> "idle"]
    /\ args = [p \in Procs |-> NoArgs]
    /\ frame = [p \in Procs |-> NoFrame]
    /\ result = [p \in Procs |-> NoResult]
    /\ submitted = 0
    /\ wrote = [p \in Procs |-> {}]
    /\ existed = [p \in Procs |-> FALSE]
    /\ seen = [p \in Procs |-> <<>>]
    /\ raisedAt = [p \in Procs |-> {}]

\* A slot takes a request when it is idle or has answered the one before.
Free(p) == pc[p] \in {"idle", "cc_done", "bulk_done", "cp_done", "co_done"}

\* Request p enters mutate() with arguments a, at statement start.
Begin(p, start, a) ==
    /\ pc' = [pc EXCEPT ![p] = start]
    /\ args' = [args EXCEPT ![p] = a]
    /\ seen' = [seen EXCEPT ![p] = <<>>]
    /\ raisedAt' = [raisedAt EXCEPT ![p] = {}]

-----------------------------------------------------------------------------
(* CreateCustomer.mutate                                                   *)

CustomerResult(customer, success, message) ==
    Returned([customer |-> customer, success |-> success, message |-> message])

CreateCustomerCall(p, data) ==
    /\ Free(p)
    /\ submitted < MaxRows
    /\ submitted' = submitted + 1
    /\ Begin(p, "cc_check", [op |-> "CreateCustomer", name |-> data.name,
                             email |-> data.email, phone |-> data.phone])
    /\ existed' = [existed EXCEPT ![p] = data.email \in EmailsOf(customers)]
    /\ frame' = [frame EXCEPT ![p] = NoFrame]
    /\ result' = [result EXCEPT ![p] = NoResult]
    /\ wrote' = [wrote EXCEPT ![p] = {}]
    /\ UNCHANGED <<customers, products, orders, seq, pending, needs_rollback>>

\* Mutant of CreateCustomerChecks: the phone is validated before the email.
CreateCustomerChecksPhoneFirst(p) ==
    IF PhoneRejected(args[p].phone) THEN Some("Invalid phone format.")
    ELSE IF EmailExists(p, args[p].email) THEN Some("Email already exists.")
    ELSE None

\* What the checks before the save answer: a failure message, or None.
CreateCustomerChecks(p) ==
    IF EmailExists(p, args[p].email) THEN Some("Email already exists.")
    ELSE IF PhoneRejected(args[p].phone) THEN Some("Invalid phone format.")
    ELSE None

CreateCustomerCheck(p) ==
    /\ pc[p] = "cc_check"
    /\ LET failure == CreateCustomerChecks(p)
       IN  IF failure # None
           THEN /\ result' = [result EXCEPT ![p] = CustomerResult(None, FALSE, failure[1])]
                /\ pc' = [pc EXCEPT ![p] = "cc_done"]
           ELSE /\ pc' = [pc EXCEPT ![p] = "cc_save"]
                /\ UNCHANGED result
    /\ UNCHANGED <<customers, products, orders, seq, pending, needs_rollback, args,
                   frame, submitted, wrote, existed, seen, raisedAt>>

\* customer.save() in autocommit, and the return after it.  An IntegrityError
\* is not caught by mutate().
CreateCustomerSave(p) ==
    /\ pc[p] = "cc_save"
    /\ ~InsertWaits(p, args[p].email)
    /\ pc' = [pc EXCEPT ![p] = "cc_done"]
    /\ IF UniqueViolation(p, args[p].email)
       THEN /\ result' = [result EXCEPT ![p] = Raised("IntegrityError")]
            /\ UNCHANGED <<customers, seq, wrote>>
       ELSE LET customer == NewCustomer(args[p])
            IN  /\ customers' = customers \cup {customer}
                /\ seq' = [seq EXCEPT !.customer = customer.id]
                /\ wrote' = [wrote EXCEPT ![p] = @ \cup {<<"customer", customer.id>>}]
                /\ result' = [result EXCEPT ![p] =
                       CustomerResult(Some(customer), TRUE, "Customer created successfully.")]
    /\ UNCHANGED <<products, orders, pending, needs_rollback, args, frame, submitted,
                   existed, seen, raisedAt>>

-----------------------------------------------------------------------------
(* BulkCreateCustomers.mutate                                              *)

BulkResult(created, errors) ==
    Returned([created_customers |-> created, errors |-> errors])

\* Mutant of RowError: the row is numbered from 0.
RowErrorFromZero(idx, text) == "Row " \o ToString(idx) \o ": " \o text

\* f"Row {idx+1}: {text}", idx counting the rows from 0 as enumerate() does.
RowError(idx, text) == "Row " \o ToString(idx + 1) \o ": " \o text

\* The row of the batch the loop is at.
Row(p) == args[p].customers[frame[p].idx + 1]

\* The statement after the body of the loop: the next row, or the end of
\* the atomic block.
AfterRow(p) == IF frame[p].idx + 1 < Len(args[p].customers) THEN "bulk_check" ELSE "bulk_exit"

\* "with transaction.atomic():" is entered with empty lists.
BulkCall(p, batch) ==
    /\ Free(p)
    /\ submitted + Len(batch) <= MaxRows
    /\ submitted' = submitted + Len(batch)
    /\ Begin(p, IF batch = <<>> THEN "bulk_exit" ELSE "bulk_check",
             [op |-> "BulkCreateCustomers", customers |-> batch])
    /\ existed' = [existed EXCEPT ![p] = FALSE]
    /\ frame' = [frame EXCEPT ![p] = [idx |-> 0, created |-> <<>>, errors |-> <<>>]]
    /\ result' = [result EXCEPT ![p] = NoResult]
    /\ wrote' = [wrote EXCEPT ![p] = {}]
    /\ UNCHANGED <<customers, products, orders, seq, pending, needs_rollback>>

\* What the checks of one row answer: the text of its error, or None.  Once
\* a save() has failed inside the atomic block the connection refuses every
\* query, the existence check included, until the block is left.
BulkRowChecks(p) ==
    IF needs_rollback[p]
    THEN Some("An error occurred in the current transaction. You can't execute queries until the end of the 'atomic' block.")
    ELSE IF EmailExists(p, Row(p).email)
    THEN Some("Email '" \o Row(p).email \o "' already exists.")
    ELSE IF PhoneRejected(Row(p).phone) THEN Some("Invalid phone format.")
    ELSE None

BulkRowCheck(p) ==
    /\ pc[p] = "bulk_check"
    /\ seen' = [seen EXCEPT ![p] = Append(@, EmailsOf(View(p)))]
    /\ LET failure == BulkRowChecks(p)
       IN  IF failure # None
           THEN /\ frame' = [frame EXCEPT ![p].errors = Append(@, RowError(frame[p].idx, failure[1])),
                                          ![p].idx = @ + 1]
                /\ pc' = [pc EXCEPT ![p] = AfterRow(p)]
           ELSE /\ pc' = [pc EXCEPT ![p] = "bulk_save"]
                /\ UNCHANGED frame
    /\ UNCHANGED <<customers, products, orders, seq, pending, needs_rollback, args,
                   result, submitted, wrote, existed, raisedAt>>

\* The save() of a row raised e: Model.save() marks the enclosing atomic
\* block for rollback, and "except Exception" turns e into the row's error.
RowSaveRaises(p, e) ==
    /\ needs_rollback' = [needs_rollback EXCEPT ![p] = TRUE]
    /\ raisedAt' = [raisedAt EXCEPT ![p] = @ \cup {frame[p].idx + 1}]
    /\ frame' = [frame EXCEPT ![p].errors = Append(@, RowError(frame[p].idx, e)),
                              ![p].idx = @ + 1]
    /\ UNCHANGED <<customers, seq, pending, wrote>>

\* customer.save() inside the atomic block, and created.append(customer).
BulkRowSave(p) ==
    /\ pc[p] = "bulk_save"
    /\ ~InsertWaits(p, Row(p).email)
    /\ pc' = [pc EXCEPT ![p] = AfterRow(p)]
    /\ IF UniqueViolation(p, Row(p).email)
       THEN RowSaveRaises(p, "UNIQUE constraint failed: crm_customer.email")
       ELSE LET customer == NewCustomer(Row(p))
            IN  /\ pending' = [pending EXCEPT ![p] = @ \cup {customer}]
                /\ seq' = [seq EXCEPT !.customer = customer.id]
                /\ wrote' = [wrote EXCEPT ![p] = @ \cup {<<"customer", customer.id>>}]
                /\ frame' = [frame EXCEPT ![p].created = Append(@, customer),
                                          ![p].idx = @ + 1]
                /\ UNCHANGED <<customers, needs_rollback, raisedAt>>
    /\ UNCHANGED <<products, orders, args, result, submitted, existed, seen>>

\* customer.save() fails in the storage layer (the connection is lost, the
\* insert is the victim of a deadlock).
BulkRowSaveFault(p) ==
    /\ pc[p] = "bulk_save"
    /\ pc' = [pc EXCEPT ![p] = AfterRow(p)]
    /\ RowSaveRaises(p, "server closed the connection unexpectedly")
    /\ UNCHANGED <<products, orders, args, result, submitted, existed, seen>>

\* Mutant of Committed: the block commits although a save() failed in it.
CommittedDespiteError(p) == pending[p]

\* The rows the end of the atomic block commits: all the pending ones, or,
\* when the block was marked for rollback, none.
Committed(p) == IF needs_rollback[p] THEN {} ELSE pending[p]

\* The atomic block is left without an exception, and mutate() returns.
BulkExit(p) ==
    /\ pc[p] = "bulk_exit"
    /\ customers' = customers \cup Committed(p)
    /\ pending' = [pending EXCEPT ![p] = {}]
    /\ needs_rollback' = [needs_rollback EXCEPT ![p] = FALSE]
    /\ result' = [result EXCEPT ![p] = BulkResult(frame[p].created, frame[p].errors)]
    /\ pc' = [pc EXCEPT ![p] = "bulk_done"]
    /\ UNCHANGED <<products, orders, seq, args, frame, submitted, wrote, existed, seen, raisedAt>>

-----------------------------------------------------------------------------
(* CreateProduct.mutate                                                    *)

ProductNames == {"Pen"}
Prices == {-5, 0, 1, 2}
Stocks == {None, Some(-1), Some(1)}

ProductInputs == [name : ProductNames, price : Prices, stock : Stocks]

\* stock = graphene.Int(default_value=0)
DefaultStock == 0

StockArg(stock) == IF stock = None THEN DefaultStock ELSE stock[1]

ProductResult(product, success, message) ==
    Returned([product |-> product, success |-> success, message |-> message])

\* Mutant of CreateProductChecks: a price of zero passes.
CreateProductChecksZeroPrice(price, stock) ==
    IF price < 0 THEN Some("Price must be positive.")
    ELSE IF stock < 0 THEN Some("Stock cannot be negative.")
    ELSE None

\* What the checks before the save answer: a failure message, or None.
CreateProductChecks(price, stock) ==
    IF price <= 0 THEN Some("Price must be positive.")
    ELSE IF stock < 0 THEN Some("Stock cannot be negative.")
    ELSE None

\* The whole of mutate(): it reaches the store once, in product.save().
CreateProduct(p, data) ==
    /\ Free(p)
    /\ CreateProductChecks(data.price, StockArg(data.stock)) = None => seq.product < MaxProducts
    /\ Begin(p, "cp_done", [op |-> "CreateProduct", name |-> data.name,
                            price |-> data.price, stock |-> StockArg(data.stock)])
    /\ LET failure == CreateProductChecks(data.price, StockArg(data.stock))
           product == [id |-> seq.product + 1, name |-> data.name, price |-> data.price,
                       stock |-> StockArg(data.stock)]
       IN  IF failure # None
           THEN /\ result' = [result EXCEPT ![p] = ProductResult(None, FALSE, failure[1])]
                /\ wrote' = [wrote EXCEPT ![p] = {}]
                /\ UNCHANGED <<products, seq>>
           ELSE /\ products' = products \cup {product}
                /\ seq' = [seq EXCEPT !.product = product.id]
                /\ wrote' = [wrote EXCEPT ![p] = {<<"product", product.id>>}]
                /\ result' = [result EXCEPT ![p] =
                       ProductResult(Some(product), TRUE, "Product created successfully.")]
    /\ UNCHANGED <<customers, orders, pending, needs_rollback, frame, submitted, existed>>

-----------------------------------------------------------------------------
(* CreateOrder.mutate                                                      *)

\* The order_date argument is left out by every request here: no property
\* below reads the date of an order.
OrderDates == {None}

\* datetime.now()
Now == "now"

OrderResult(order, success, message) ==
    Returned([order |-> order, success |-> success, message |-> message])

\* Product.objects.get(pk=pid), for a pid that resolves.
GetProduct(pid) == CHOOSE x \in products : x.id = pid

\* The loop over product_ids from position i on: it stops at the first id
\* that does not resolve, and otherwise collects the products and adds up
\* their prices.
RECURSIVE ResolveProducts(_, _, _, _)
ResolveProducts(product_ids, i, resolved, total_amount) ==
    IF i > Len(product_ids)
    THEN [invalid |-> None, products |-> resolved, total_amount |-> total_amount]
    ELSE IF product_ids[i] \notin Ids(products)
    THEN [invalid |-> Some(product_ids[i]), products |-> resolved, total_amount |-> total_amount]
    ELSE ResolveProducts(product_ids, i + 1, Append(resolved, GetProduct(product_ids[i])),
                         total_amount + GetProduct(product_ids[i]).price)

\* Mutant of CreateOrderChecks: the empty list is rejected before the
\* customer is resolved.
CreateOrderChecksEmptyFirst(customer_id, product_ids) ==
    IF product_ids = <<>> THEN Some("At least one product must be selected.")
    ELSE IF customer_id \notin Ids(customers) THEN Some("Invalid customer ID.")
    ELSE LET r == ResolveProducts(product_ids, 1, <<>>, 0)
         IN  IF r.invalid # None
             THEN Some("Invalid product ID: " \o ToString(r.invalid[1]))
             ELSE None

\* What the checks before the save answer: a failure message, or None.
CreateOrderChecks(customer_id, product_ids) ==
    IF customer_id \notin Ids(customers) THEN Some("Invalid customer ID.")
    ELSE IF product_ids = <<>> THEN Some("At least one product must be selected.")
    ELSE LET r == ResolveProducts(product_ids, 1, <<>>, 0)
         IN  IF r.invalid # None
             THEN Some("Invalid product ID: " \o ToString(r.invalid[1]))
             ELSE None

\* mutate() up to and with order.save(), which commits the order row at
\* once: no atomic block surrounds it.  The rows it reads are never updated
\* nor deleted.
CreateOrderSave(p, customer_id, product_ids, order_date) ==
    /\ Free(p)
    /\ seq.order < MaxOrders
    /\ LET failure == CreateOrderChecks(customer_id, product_ids)
           r == ResolveProducts(product_ids, 1, <<>>, 0)
           order == [id |-> seq.order + 1, customer |-> customer_id,
                     order_date |-> IF order_date # None THEN order_date[1] ELSE Now,
                     total_amount |-> r.total_amount, products |-> {}]
       IN  IF failure # None
           THEN /\ Begin(p, "co_done", [op |-> "CreateOrder", customer_id |-> customer_id,
                                        product_ids |-> product_ids, order_date |-> order_date])
                /\ result' = [result EXCEPT ![p] = OrderResult(None, FALSE, failure[1])]
                /\ wrote' = [wrote EXCEPT ![p] = {}]
                /\ frame' = [frame EXCEPT ![p] = NoFrame]
                /\ UNCHANGED <<orders, seq>>
           ELSE /\ Begin(p, "co_set", [op |-> "CreateOrder", customer_id |-> customer_id,
                                       product_ids |-> product_ids, order_date |-> order_date])
                /\ orders' = orders \cup {order}
                /\ seq' = [seq EXCEPT !.order = order.id]
                /\ wrote' = [wrote EXCEPT ![p] = {<<"order", order.id>>}]
                /\ frame' = [frame EXCEPT ![p] = [order |-> order.id, products |-> r.products]]
                /\ result' = [result EXCEPT ![p] = NoResult]
    /\ UNCHANGED <<customers, products, pending, needs_rollback, submitted, existed>>

\* The relation products.set(objs) leaves: the products of objs, each once.
RelationSet(objs) == {objs[i].id : i \in 1..Len(objs)}

\* order.products.set(products), and the return after it.
CreateOrderSetProducts(p) ==
    /\ pc[p] = "co_set"
    /\ LET order == CHOOSE o \in orders : o.id = frame[p].order
           attached == [order EXCEPT !.products = RelationSet(frame[p].products)]
       IN  /\ orders' = (orders \ {order}) \cup {attached}
           /\ result' = [result EXCEPT ![p] =
                  OrderResult(Some(order.id), TRUE, "Order created successfully.")]
    /\ pc' = [pc EXCEPT ![p] = "co_done"]
    /\ UNCHANGED <<customers, products, seq, pending, needs_rollback, args, frame,
                   submitted, wrote, existed, seen, raisedAt>>

\* order.products.set(products) fails in the storage layer; mutate() does
\* not catch the exception, and the order row stays as it was saved.
CreateOrderSetFault(p) ==
    /\ pc[p] = "co_set"
    /\ result' = [result EXCEPT ![p] = Raised("OperationalError")]
    /\ pc' = [pc EXCEPT ![p] = "co_done"]
    /\ UNCHANGED <<customers, products, orders, seq, pending, needs_rollback, args, frame,
                   submitted, wrote, existed, seen, raisedAt>>

-----------------------------------------------------------------------------

Next ==
    \E p \in Procs :
        \/ \E data \in CustomerInputs : CreateCustomerCall(p, data)
        \/ CreateCustomerCheck(p)
        \/ CreateCustomerSave(p)
        \/ \E batch \in Batches(MaxRows - submitted) : BulkCall(p, batch)
        \/ BulkRowCheck(p)
        \/ BulkRowSave(p)
        \/ BulkRowSaveFault(p)
        \/ BulkExit(p)

Spec == Init /\ [][Next]_vars

\* The product mutation alone, one request at a time.
NextProducts == \E data \in ProductInputs : CreateProduct("r1", data)

SpecProducts == Init /\ [][NextProducts]_vars

\* The store the order mutation starts from holds one customer, created
\* by an earlier CreateCustomer request.
FirstCustomer == [id |-> 1, name |-> "Ann", email |-> "a@x.io", phone |-> None]

InitOrders ==
    /\ customers = {FirstCustomer}
    /\ products = {}
    /\ orders = {}
    /\ seq = [customer |-> 1, product |-> 0, order |-> 0]
    /\ pending = [p \in Procs |-> {}]
    /\ needs_rollback = [p \in Procs |-> FALSE]
    /\ pc = [p \in Procs |-> "idle"]
    /\ args = [p \in Procs |-> NoArgs]
    /\ frame = [p \in Procs |-> NoFrame]
    /\ result = [p \in Procs |-> NoResult]
    /\ submitted = 1
    /\ wrote = [p \in Procs |-> {}]
    /\ existed = [p \in Procs |-> FALSE]
    /\ seen = [p \in Procs |-> <<>>]
    /\ raisedAt = [p \in Procs |-> {}]

\* The products an order can name.
OrderProductInputs == [name : ProductNames, price : {1, 2}, stock : {None}]

\* The ids a request can name: those of the rows there can be, and for the
\* customer one more.
CustomerIdArgs == {1, 2}
ProductIdArgs == 1..MaxProducts

\* The order mutation, with the mutation that creates the products it
\* refers to, one request at a time.
NextOrders ==
    \/ \E data \in OrderProductInputs : CreateProduct("r1", data)
    \/ \E customer_id \in CustomerIdArgs, order_date \in OrderDates :
           \E product_ids \in SeqsUpTo(ProductIdArgs, MaxProductIds) :
               CreateOrderSave("r1", customer_id, product_ids, order_date)
    \/ CreateOrderSetProducts("r1")
    \/ CreateOrderSetFault("r1")

SpecOrders == InitOrders /\ [][NextOrders]_vars

-----------------------------------------------------------------------------
(* Properties of the customer mutations, checked under Spec.               *)

HasPrefix(s, prefix) == Len(s) >= Len(prefix) /\ SubSeq(s, 1, Len(prefix)) = prefix

BatchOf(p) == args[p].customers

RowPrefix(i) == "Row " \o ToString(i) \o ":"

\* Row i (counted from 1) fails validation: its email was visible when the
\* row was reached, or its phone is supplied and malformed.
FailsValidation(p, i) ==
    \/ BatchOf(p)[i].email \in seen[p][i]
    \/ PhoneRejected(BatchOf(p)[i].phone)

ValidationError(p, i) ==
    IF BatchOf(p)[i].email \in seen[p][i]
    THEN RowPrefix(i) \o " Email '" \o BatchOf(p)[i].email \o "' already exists."
    ELSE RowPrefix(i) \o " Invalid phone format."

\* Row i was reached after the save() of an earlier row had raised.
AfterFailedSave(p, i) == \E j \in raisedAt[p] : j < i

IsErrorRow(p, i) == i \in raisedAt[p] \/ AfterFailedSave(p, i) \/ FailsValidation(p, i)

RowNumbers(p) == [i \in 1..Len(BatchOf(p)) |-> i]

ErrorRows(p) == SelectSeq(RowNumbers(p), LAMBDA i : IsErrorRow(p, i))

CreatedRows(p) == SelectSeq(RowNumbers(p), LAMBDA i : ~IsErrorRow(p, i))

IsCustomerOf(c, data) ==
    c.name = data.name /\ c.email = data.email /\ c.phone = data.phone

\* C1: no two stored customers have the same email, neither among the
\* committed rows nor among the rows any open transaction reads.
EmailUnique ==
    \A p \in Procs : \A c1, c2 \in View(p) : c1.email = c2.email => c1 = c2

\* C1, its case: a request is past its existence check, about to save,
\* while its email has been stored by another request in the meantime.
EmailUniqueWitness ==
    \E p \in Procs :
        /\ pc[p] \in {"cc_save", "bulk_save"}
        /\ (IF pc[p] = "cc_save" THEN args[p].email ELSE Row(p).email) \in EmailsOf(customers)

\* C4: when BulkCreateCustomers has returned, either no save() raised and
\* every row it saved is committed, or a save() raised and none of the rows
\* it saved is in the store.
BulkAllOrNothing ==
    \A p \in Procs :
        pc[p] = "bulk_done" =>
            LET saved == {w[2] : w \in wrote[p]}
            IN  /\ saved = {c.id : c \in {frame[p].created[k] : k \in 1..Len(frame[p].created)}}
                /\ IF raisedAt[p] = {}
                   THEN saved \subseteq Ids(customers)
                   ELSE saved \cap Ids(customers) = {}

\* C4, its case: a call has ended in which a save() raised after an earlier
\* row had been saved.
BulkAllOrNothingWitness ==
    \E p \in Procs : pc[p] = "bulk_done" /\ raisedAt[p] # {} /\ wrote[p] # {}

\* C5: when BulkCreateCustomers has returned, the rows that failed
\* validation (and the rows hit by a failed save) each have exactly one
\* error, "Row N: ..." with N the 1-based position, in input order; the
\* other rows were saved and are the created list, in input order; so the
\* two lists together are as long as the batch.
BulkPerRowOutcome ==
    \A p \in Procs :
        pc[p] = "bulk_done" =>
            LET created == result[p].value.created_customers
                errors == result[p].value.errors
                e == ErrorRows(p)
                c == CreatedRows(p)
            IN  /\ result[p].status = "returned"
                /\ Len(created) + Len(errors) = Len(BatchOf(p))
                /\ Len(errors) = Len(e)
                /\ \A k \in 1..Len(e) :
                       /\ HasPrefix(errors[k], RowPrefix(e[k]))
                       /\ (FailsValidation(p, e[k]) /\ ~AfterFailedSave(p, e[k]))
                              => errors[k] = ValidationError(p, e[k])
                /\ Len(created) = Len(c)
                /\ \A k \in 1..Len(c) :
                       /\ IsCustomerOf(created[k], BatchOf(p)[c[k]])
                       /\ <<"customer", created[k].id>> \in wrote[p]
                       /\ raisedAt[p] = {} => created[k] \in customers

\* C5, its case: a call has returned in which a row failed validation and a
\* later row was created.
BulkPerRowOutcomeWitness ==
    \E p \in Procs :
        /\ pc[p] = "bulk_done"
        /\ raisedAt[p] = {}
        /\ \E i, j \in 1..Len(BatchOf(p)) : i < j /\ FailsValidation(p, i) /\ ~FailsValidation(p, j)

\* C6: when a save() of BulkCreateCustomers raised, the call still returns
\* its two lists, the row has a "Row N: ..." error, and every other row is
\* processed normally: it has its validation error if it fails validation
\* and is created otherwise.
BulkSaveErrorStaysInRow ==
    \A p \in Procs :
        pc[p] = "bulk_done" =>
            LET created == result[p].value.created_customers
                errors == result[p].value.errors
            IN  /\ result[p].status = "returned"
                /\ \A i \in raisedAt[p] :
                       \E k \in 1..Len(errors) : HasPrefix(errors[k], RowPrefix(i))
                /\ \A j \in (1..Len(BatchOf(p))) \ raisedAt[p] :
                       IF FailsValidation(p, j)
                       THEN \E k \in 1..Len(errors) : errors[k] = ValidationError(p, j)
                       ELSE \E k \in 1..Len(created) : IsCustomerOf(created[k], BatchOf(p)[j])

\* C7: CreateCustomer ends by returning success with a customer or failure
\* without one, and never by raising.
CreateCustomerNeverRaises ==
    \A p \in Procs :
        pc[p] = "cc_done" =>
            /\ result[p].status = "returned"
            /\ \/ result[p].value.success /\ result[p].value.customer # None
               \/ ~result[p].value.success /\ result[p].value.customer = None

\* C8: a CreateCustomer invoked with an email that was stored at that time
\* answers success=false, "Email already exists.", and has inserted nothing.
DuplicateEmailRefused ==
    \A p \in Procs :
        (pc[p] = "cc_done" /\ existed[p]) =>
            /\ result[p] = CustomerResult(None, FALSE, "Email already exists.")
            /\ wrote[p] = {}

\* C8, its case: such a call has ended, and its phone was malformed too.
DuplicateEmailRefusedWitness ==
    \E p \in Procs : pc[p] = "cc_done" /\ existed[p] /\ PhoneRejected(args[p].phone)

-----------------------------------------------------------------------------
(* Properties of the order mutation, checked under SpecOrders, and of the  *)
(* product mutation, checked under SpecProducts.                           *)

RECURSIVE SumOfPrices(_)
SumOfPrices(ids) ==
    IF ids = {} THEN 0
    ELSE LET pid == CHOOSE x \in ids : TRUE
         IN  GetProduct(pid).price + SumOfPrices(ids \ {pid})

\* C2: the total_amount of an order CreateOrder has created is the sum of
\* the prices of the products in the order's relation.
OrderTotalIsSumOfProducts ==
    \A p \in Procs :
        (pc[p] = "co_done" /\ result[p].status = "returned" /\ result[p].value.success) =>
            LET order == CHOOSE o \in orders : o.id = result[p].value.order[1]
            IN  order.total_amount = SumOfPrices(order.products)

\* C3: every stored order has at least one product.
OrdersHaveProducts == \A o \in orders : o.products # {}

\* CreateOrder has refused the request with this message and written nothing.
OrderRefused(p, message) ==
    /\ pc[p] = "co_done"
    /\ result[p] = OrderResult(None, FALSE, message)
    /\ wrote[p] = {}
    /\ Cardinality(orders) = seq.order

\* C9: CreateOrder reports the first failing check only, in the order
\* customer, empty list, first unresolvable product id, and then writes
\* nothing; it writes an order only when no check fails.
CreateOrderFirstFailure ==
    \A p \in Procs :
        pc[p] \in {"co_set", "co_done"} =>
            LET customer_id == args[p].customer_id
                product_ids == args[p].product_ids
                unresolved == {i \in 1..Len(product_ids) : product_ids[i] \notin Ids(products)}
                first == CHOOSE i \in unresolved : \A j \in unresolved : i <= j
            IN  IF customer_id \notin Ids(customers)
                THEN OrderRefused(p, "Invalid customer ID.")
                ELSE IF Len(product_ids) = 0
                THEN OrderRefused(p, "At least one product must be selected.")
                ELSE IF unresolved # {}
                THEN OrderRefused(p, "Invalid product ID: " \o ToString(product_ids[first]))
                ELSE wrote[p] = {<<"order", seq.order>>}

\* C9, its case: a call has ended whose customer resolves and whose first
\* product id resolves while its second does not.
CreateOrderFirstFailureWitness ==
    \E p \in Procs :
        /\ pc[p] = "co_done"
        /\ args[p].customer_id \in Ids(customers)
        /\ Len(args[p].product_ids) >= 2
        /\ args[p].product_ids[1] \in Ids(products)
        /\ args[p].product_ids[2] \notin Ids(products)

\* C10: every stored product has price > 0 and stock >= 0; CreateProduct
\* answers "Price must be positive." when price <= 0, else "Stock cannot be
\* negative." when stock < 0, storing nothing either time, and stores the
\* product otherwise.
ProductConstraints ==
    /\ \A x \in products : x.price > 0 /\ x.stock >= 0
    /\ Cardinality(products) = seq.product
    /\ \A p \in Procs :
           pc[p] = "cp_done" =>
               IF args[p].price <= 0
               THEN /\ result[p] = ProductResult(None, FALSE, "Price must be positive.")
                    /\ wrote[p] = {}
               ELSE IF args[p].stock < 0
               THEN /\ result[p] = ProductResult(None, FALSE, "Stock cannot be negative.")
                    /\ wrote[p] = {}
               ELSE /\ result[p].status = "returned"
                    /\ result[p].value.success
                    /\ \E x \in products :
                           /\ result[p].value.product = Some(x)
                           /\ x.price = args[p].price
                           /\ x.stock = args[p].stock
                           /\ wrote[p] = {<<"product", x.id>>}

\* C10, its case: a call has ended whose price and stock were both invalid.
ProductConstraintsWitness ==
    \E p \in Procs : pc[p] = "cp_done" /\ args[p].price <= 0 /\ args[p].stock < 0

====
